---- MODULE Spec2Model ----
(***************************************************************************)
(* State-machine model of the PDF extraction core of file-to-md-json:      *)
(* PDFProcessor.process and the stages it drives                           *)
(* (src/processors/pdf_processor.py), with the OCR adapter's calling       *)
(* contract (src/processors/ocr_processor.py).                             *)
(*                                                                         *)
(* One behaviour is one invocation of PDFProcessor.process on one          *)
(* document.  The document and the environment (OCR module importable or   *)
(* not, page-range tool outcome, OCR outcome, image walk outcome) are the  *)
(* inputs; the progress sink records the percentages it is handed and      *)
(* either returns from every call or raises from every call.               *)
(*                                                                         *)
(* A second specification, ConvertSpec, follows concurrent /api/convert     *)
(* requests of the web application (src/app.py) around the one shared      *)
(* processor object.                                                       *)
(*                                                                         *)
(* Units: file sizes are thousandths of a megabyte; the value the code     *)
(* stores in metadata['file_size_mb'] (round(x, 2)) is in hundredths.      *)
(* Texts are modelled by their provenance and length, not their letters.   *)
(***************************************************************************)
EXTENDS Integers, Sequences, FiniteSets, TLC

VARIABLES
    pc,                     \* position of the run inside process
    doc,                    \* the input document (fixed during a run)
    sink,                   \* the progress callback: "ok" | "raises" (fixed)
    emitted,                \* percentages handed to the progress sink, in order
    result,                 \* the result dict of process
    text_by,                \* which statement last assigned result['text']
    stages,                 \* stages entered so far, in order
    exc,                    \* the exception process's handler caught ("none")
    full_text,              \* pipeline local: the entries of full_text
    pages_with_text,        \* pipeline local
    total_text_length,      \* pipeline local
    page_num,               \* standard pipeline: next page (1-based)
    chunk_start,            \* streaming: chunk_start
    page_idx,               \* streaming: next page index (0-based)
    progress,               \* streaming: the current chunk's progress value
    text_extraction_failed, \* the quality heuristic's verdict ("unset" before)
    sample_total,           \* feasibility test: len(sample_pages)
    sample_idx,             \* feasibility test: samples iterated so far
    sample_success,         \* feasibility test: sample_success
    sample_tested,          \* feasibility test: samples that reached the OCR call
    feasibility,            \* "none" | "pass" | "fail": outcome of the test
    ocr_chunk_start,        \* chunked OCR: chunk_start
    all_text,               \* chunked OCR: all_text
    processed_pages,        \* chunked OCR: processed_pages
    chunk_faults,           \* chunked OCR: chunks that did not yield OCR text
    temp_files,             \* temporary sub-documents that exist on disk
    image_walk,             \* what the image extractor met and how far it went
    chunk_ranges,           \* chunked OCR: the page ranges of the chunks handled
    ocr_conf_seen,          \* token confidence the direct OCR fallback's engine
                            \* gave for some page (0: none, or no OCR call)
    progress_callback,      \* app: progress_callback of processors['pdf']
    request,                \* app: position of each /api/convert request
    progress_store,         \* app: progress_store, by (session, file) key
    deliveries              \* app: whose reports were recorded under whose key

\* the state of one invocation of process
processVars == <<pc, doc, sink, emitted, result, text_by, stages, exc, full_text,
          pages_with_text, total_text_length, page_num, chunk_start, page_idx,
          progress, text_extraction_failed, sample_total, sample_idx,
          sample_success, sample_tested, feasibility, ocr_chunk_start,
          all_text, processed_pages, chunk_faults, temp_files, image_walk,
          ocr_conf_seen, chunk_ranges>>

\* the state of the web application around the processor
appVars == <<progress_callback, request, progress_store, deliveries>>

vars == <<processVars, appVars>>

----------------------------------------------------------------------------
(* Bounds of the model *)

\* page counts 0..MaxSmallPages are all explored
MaxSmallPages == 3
\* at most this many chunks of one chunked-OCR run deviate from "OCR text"
MaxChunkFaults == 1
\* a page carries no image, one image or this many images
MaxPageImages == 30

----------------------------------------------------------------------------
(* Small helpers *)

Min(a, b) == IF a < b THEN a ELSE b
Max(a, b) == IF a > b THEN a ELSE b

\* dict helpers for result['metadata']
EmptyMeta == [k \in {} |-> 0]
MetaSet(m, k, v) == (k :> v) @@ m
MetaGet(m, k, default) == IF k \in DOMAIN m THEN m[k] ELSE default

\* the empty string
EmptyText == [kind |-> "empty", body |-> <<>>]
\* text is truthy in Python when it is not the empty string
Truthy(t) == t # EmptyText

----------------------------------------------------------------------------
(* Inputs: documents *)

Profiles == {"full", "thin", "sparse", "blank", "empty"}

\* what page.extract_text() returns for page p: ws whitespace characters
\* around chars other characters (ws = chars = 0: None or '')
PageText(profile, p) ==
    CASE profile = "full"   -> [ws |-> 2, chars |-> 200]
      [] profile = "thin"   -> [ws |-> 0, chars |-> 60]
      [] profile = "sparse" -> IF p % 4 = 1 THEN [ws |-> 1, chars |-> 200]
                                            ELSE [ws |-> 0, chars |-> 0]
      [] profile = "blank"  -> [ws |-> 3, chars |-> 0]
      [] OTHER              -> [ws |-> 0, chars |-> 0]

\* str.strip()
Strip(t) == [t EXCEPT !.ws = 0]
\* a Python string is truthy when it has at least one character
NonEmpty(t) == t.ws + t.chars > 0

\* a selector that sends a file of exactly 50 MB to the streaming pipeline
UseStreamingAtLeast(size) == size >= 50000

\* the strategy selector's test, file_size_mb > 50
UseStreaming(size) == size > 50000

FileSizes == {30000, 50000, 50004, 100004, 150000, 200004, 250000}

PageCounts == (0..MaxSmallPages) \cup {10, 11, 41, 61}

\* what page.extract_tables() returns for every page of a document: no
\* table, or an empty table followed by a table with rows
PageTables == {<<>>, <<"empty", "rows">>}

SmallDocs ==
    {d \in [total_pages : PageCounts, size : FileSizes, has_metadata : BOOLEAN,
            profile : Profiles, tables : PageTables, bad_page : 0..61,
            open_fails : {FALSE}] :
        /\ d.bad_page \in {0, 1, d.total_pages}
        /\ d.tables # <<>> => ~UseStreaming(d.size)}

\* documents long enough for the streaming sub-progress (total_pages > 500)
BigDocs ==
    {d \in [total_pages : {510}, size : {30000, 60000, 150000},
            has_metadata : BOOLEAN, profile : {"full", "empty"},
            tables : PageTables, bad_page : {0, 10}, open_fails : {FALSE}] :
        d.tables # <<>> => ~UseStreaming(d.size)}

\* documents pdfplumber cannot open
BrokenDocs ==
    [total_pages : {0}, size : {30000, 250000}, has_metadata : {FALSE},
     profile : {"empty"}, tables : {<<>>}, bad_page : {0}, open_fails : {TRUE}]

Docs == SmallDocs \cup BigDocs \cup BrokenDocs

\* the progress callback handed to set_progress_callback: one that returns
\* from every call, one that raises from every call
Sinks == {"ok", "raises"}

\* the /api/convert requests in flight, each for its own (session, file)
\* key; a request is named by its key
Requests == {"A", "B"}

----------------------------------------------------------------------------
(* Inputs: the OCR adapter *)

\* what OCRProcessor.process meets: the text the engine yields (len
\* characters after cleaning, conf > 0 when a token confidence was pooled),
\* or an exception whose message has msg characters
OcrOutcomes ==
    [raises : {FALSE}, len : {0, 50, 51, 120}, conf : {0, 80}, msg : {0}]
    \cup [raises : {TRUE}, len : {0}, conf : {0}, msg : {10, 30}]

ErrorPrefixLen == 32

\* OCRProcessor.process: never raises; an exception becomes result['error']
\* and the text "Error processing file with OCR: <message>"
OCRProcess(o) ==
    IF o.raises
    THEN [text |-> [kind |-> "ocr_error_message",
                    body |-> <<ErrorPrefixLen + o.msg>>],
          error |-> "ocr_error", ocr_confidence |-> 0]
    ELSE [text |-> IF o.len = 0 THEN EmptyText
                   ELSE [kind |-> "ocr_text", body |-> <<o.len>>],
          error |-> "absent",
          ocr_confidence |-> IF o.len > 0 THEN o.conf ELSE 0]

\* the confidence image_to_data gave for a token of some page during a call
\* of OCRProcessor.process that the fallback made (imp: the module loaded)
OcrConfSeen(imp, o) == IF imp /\ ~o.raises THEN o.conf ELSE 0

\* len(text.strip()) of an OCR result text
TextLen(t) == IF t = EmptyText THEN 0 ELSE t.body[1]

----------------------------------------------------------------------------
(* Pure computations of the pipelines *)

\* metadata['file_size_mb'] = round(file_size_mb, 2), in hundredths
RoundTo2(size) == (size + 5) \div 10

\* progress = 15 + int((page_num / total_pages) * 70)
StdProgress(p, total) == 15 + (p * 70) \div total

\* chunk_size = min(20, max(5, total_pages // 10))
StreamChunkSize(total) == Min(20, Max(5, total \div 10))

\* a chunk end that is not clamped to the document
StreamChunkEndUnclamped(cs, size, total) == cs + size

\* chunk_end = min(chunk_start + chunk_size, total_pages)
StreamChunkEnd(cs, size, total) == Min(cs + size, total)

\* progress = 15 + int((chunk_start / total_pages) * 65)
StreamProgress(cs, total) == 15 + (cs * 65) \div total

\* sub_progress = progress + int(((page_idx - chunk_start) / chunk_size) * 5)
SubProgress(prog, idx, cs, size) == prog + ((idx - cs) * 5) \div size

\* '\n\n'.join(full_text)
JoinText(ft) == IF ft = <<>> THEN EmptyText ELSE [kind |-> "parsed", body |-> ft]

SkipNote == [kind |-> "ocr_skipped_note", body |-> <<>>]

\* the standard pipeline judging by the streaming pipeline's thresholds
StdFailedLoose(pwt, ttl, total) ==
    \/ 10 * pwt < 3 * total
    \/ (IF total # 0 THEN ttl < 50 * total ELSE TRUE)

\* the standard heuristic with an average left undecided on an empty document
StdFailedNoZeroGuard(pwt, ttl, total) ==
    \/ 2 * pwt < total
    \/ (total # 0 /\ ttl < 100 * total)

\* the quality heuristic, standard profile
StdFailed(pwt, ttl, total) ==
    \/ 2 * pwt < total
    \/ (IF total # 0 THEN ttl < 100 * total ELSE TRUE)

\* the quality heuristic, streaming profile
StreamFailed(pwt, ttl, total) ==
    \/ 10 * pwt < 3 * total
    \/ (IF total # 0 THEN ttl < 50 * total ELSE TRUE)

\* round(avg_text_per_page, 2), in hundredths
AvgText(ttl, total) == IF total # 0 THEN (ttl * 100) \div total ELSE 0

\* result.get('metadata', {}).get('file_size_mb', 0), in hundredths
FileSizeMb(res) == MetaGet(res.metadata, "file_size_mb", 0)

----------------------------------------------------------------------------
(* The direct whole-document OCR fallback *)

\* a fallback that merges the OCR text but leaves extraction_method alone
FallbackToOcrKeepsMethod(res, imp, o) ==
    IF ~imp
    THEN [raised |-> FALSE, wrote |-> FALSE,
          res |-> [res EXCEPT !.error = "OCR fallback failed"]]
    ELSE LET ocr == OCRProcess(o)
         IN [raised |-> FALSE, wrote |-> TRUE,
             res |-> [res EXCEPT !.text = ocr.text,
                                 !.ocr_confidence = ocr.ocr_confidence]]

\* _fallback_to_ocr: imp says whether `from .ocr_processor import
\* OCRProcessor` succeeds, o is what the OCR adapter meets.  Everything is
\* inside one try/except Exception, so the call always returns normally.
FallbackToOcr(res, imp, o) ==
    IF ~imp
    THEN [raised |-> FALSE, wrote |-> FALSE,
          res |-> [res EXCEPT !.error = "OCR fallback failed"]]
    ELSE LET ocr == OCRProcess(o)
             md1 == MetaSet(res.metadata, "extraction_method", "OCR (Scanned PDF)")
             md2 == IF ocr.ocr_confidence # 0
                    THEN MetaSet(md1, "ocr_confidence", ocr.ocr_confidence)
                    ELSE md1
         IN [raised |-> FALSE, wrote |-> TRUE,
             res |-> [res EXCEPT !.text = ocr.text,
                                 !.extraction_method = "ocr_fallback",
                                 !.ocr_confidence = ocr.ocr_confidence,
                                 !.metadata = md2]]

----------------------------------------------------------------------------
(* The image extractor's walk *)

\* images_extracted >= 50
ImageCap == 50

\* what the image extractor meets in the file: every page carries per_page
\* embedded images; the image with img_index bad_index of every page cannot
\* be decoded or re-encoded (-1: none); fitz.open raises ("open"),
\* load_page raises on the last page ("last") or nothing raises ("never").
\* A decode failure and a load failure are not combined.
ImageEnvs ==
    {e \in [per_page : {0, 1, MaxPageImages}, bad_index : {-1, 0},
            load_fails : {"never", "open", "last"}] :
        /\ e.bad_index = 0 => (e.per_page = MaxPageImages /\ e.load_fails = "never")
        /\ e.load_fails = "open" => e.per_page = 0
        /\ e.load_fails = "last" => e.per_page > 0}

\* the page whose load_page raises (0: none)
FailPage(env, total) == IF env.load_fails = "last" THEN total ELSE 0

\* the walk's locals: the records appended to result['images'],
\* images_extracted, whether an exception reached the function's handler,
\* the pages loaded, the images whose extraction was attempted and the
\* last of them
NoWalk ==
    [env |-> [per_page |-> 0, bad_index |-> -1, load_fails |-> "never"],
     raised |-> FALSE, loaded |-> 0, attempts |-> 0,
     last |-> [page_number |-> 0, image_index |-> 0]]

WalkStart ==
    [images |-> <<>>, images_extracted |-> 0, raised |-> FALSE, loaded |-> 0,
     attempts |-> 0, last |-> [page_number |-> 0, image_index |-> 0]]

\* the loop over one page's image_list from img_index idx on; inner_break
\* says whether the loop has its `if images_extracted >= 50: break`
RECURSIVE WalkImage(_, _, _, _, _)
WalkImage(env, p, idx, w, inner_break) ==
    IF idx >= env.per_page THEN w
    ELSE LET here == [page_number |-> p, image_index |-> idx]
             tried == [w EXCEPT !.attempts = @ + 1, !.last = here]
         IN IF idx = env.bad_index
            THEN \* except Exception: continue
                 WalkImage(env, p, idx + 1, tried, inner_break)
            ELSE LET w1 == [tried EXCEPT !.images = Append(@, here),
                                         !.images_extracted = @ + 1]
                 IN IF inner_break /\ w1.images_extracted >= ImageCap
                    THEN w1
                    ELSE WalkImage(env, p, idx + 1, w1, inner_break)

\* the loop over the pages from page p on.  When no page carries an image
\* and no load fails, an iteration only loads its page: the rest of the loop
\* is folded into one step.
RECURSIVE WalkPages(_, _, _, _, _)
WalkPages(env, total, p, w, inner_break) ==
    IF p > total THEN w
    ELSE IF env.per_page = 0 /\ FailPage(env, total) = 0
    THEN [w EXCEPT !.loaded = @ + (total - p + 1)]
    ELSE IF p = FailPage(env, total)
    THEN [w EXCEPT !.raised = TRUE]
    ELSE LET w1 == WalkImage(env, p, 0, [w EXCEPT !.loaded = @ + 1], inner_break)
         IN IF w1.images_extracted >= ImageCap
            THEN w1
            ELSE WalkPages(env, total, p + 1, w1, inner_break)

ImageWalk(env, total, inner_break) ==
    IF env.load_fails = "open"
    THEN [WalkStart EXCEPT !.raised = TRUE]
    ELSE WalkPages(env, total, 1, WalkStart, inner_break)

\* the page counts of the documents
DocPageCounts == {d.total_pages : d \in Docs}

\* the walk when an image's decode failure is not caught per image: it
\* reaches the function's handler like a failure of fitz.open
ImageWalksDecodeFailureAborts ==
    [t \in DocPageCounts, env \in ImageEnvs |->
        ImageWalk(IF env.bad_index >= 0 THEN [env EXCEPT !.load_fails = "open"]
                                        ELSE env, t, TRUE)] @@ <<>>

\* the walk without the inner loop's break at the cap
ImageWalksNoInnerBreak ==
    [t \in DocPageCounts, env \in ImageEnvs |-> ImageWalk(env, t, FALSE)] @@ <<>>

\* the walk of _extract_images for every document length and environment,
\* as a table (@@ with the empty function makes it an explicit function, so
\* that each walk is computed once)
ImageWalks ==
    [t \in DocPageCounts, env \in ImageEnvs |-> ImageWalk(env, t, TRUE)] @@ <<>>

----------------------------------------------------------------------------
(* Initial state: process has built its result dict *)

InitResult ==
    [text |-> EmptyText, tables |-> <<>>, pages |-> <<>>, images |-> <<>>,
     metadata |-> EmptyMeta, extraction_method |-> "text_extraction",
     error |-> "absent", ocr_confidence |-> -1]

Init ==
    /\ pc = "start"
    /\ doc \in Docs
    /\ sink \in Sinks
    /\ emitted = <<>>
    /\ result = InitResult
    /\ text_by = "init"
    /\ stages = <<>>
    /\ exc = "none"
    /\ full_text = <<>>
    /\ pages_with_text = 0
    /\ total_text_length = 0
    /\ page_num = 0
    /\ chunk_start = 0
    /\ page_idx = 0
    /\ progress = 0
    /\ text_extraction_failed = "unset"
    /\ sample_total = 0
    /\ sample_idx = 0
    /\ sample_success = 0
    /\ sample_tested = 0
    /\ feasibility = "none"
    /\ ocr_chunk_start = 0
    /\ all_text = <<>>
    /\ processed_pages = 0
    /\ chunk_faults = 0
    /\ temp_files = 0
    /\ image_walk = NoWalk
    /\ ocr_conf_seen = 0
    /\ chunk_ranges = <<>>
    /\ progress_callback = "none"
    /\ request = [r \in Requests |-> [pc |-> "start", next |-> 1]]
    /\ progress_store = [r \in Requests |-> -1]
    /\ deliveries = {}

pipelineVars == <<full_text, pages_with_text, total_text_length, page_num,
                  chunk_start, page_idx, progress, text_extraction_failed>>
sampleVars == <<sample_total, sample_idx, sample_success, sample_tested,
                feasibility>>
chunkVars == <<ocr_chunk_start, all_text, processed_pages, chunk_faults>>

----------------------------------------------------------------------------
(* process: opening the document and selecting the strategy *)

\* pdf.metadata is truthy: title, author, subject, creator, pages, file_size_mb
DocMetadata(d) ==
    MetaSet(MetaSet(MetaSet(MetaSet(MetaSet(MetaSet(EmptyMeta,
        "title", "t"), "author", "a"), "subject", "s"), "creator", "c"),
        "pages", d.total_pages), "file_size_mb", RoundTo2(d.size))

Open ==
    /\ pc = "start"
    /\ IF sink = "raises"
       THEN \* _report_progress(5, ...) raises inside the try block
            /\ emitted' = emitted \o <<5>>
            /\ exc' = "sink"
            /\ pc' = "except"
            /\ UNCHANGED <<result, stages, page_num>>
       ELSE IF doc.open_fails
       THEN /\ emitted' = emitted \o <<5>>
            /\ exc' = "open"
            /\ pc' = "except"
            /\ UNCHANGED <<result, stages, page_num>>
       ELSE /\ result' = [result EXCEPT !.metadata =
                             IF doc.has_metadata THEN DocMetadata(doc) ELSE @]
            /\ IF UseStreaming(doc.size)
               THEN /\ emitted' = emitted \o <<5, 10, 12>>
                    /\ pc' = "streaming"
                    /\ UNCHANGED <<stages, page_num>>
               ELSE /\ emitted' = emitted \o <<5, 10>>
                    /\ stages' = Append(stages, "standard")
                    /\ page_num' = 1
                    /\ pc' = "std_page"
            /\ UNCHANGED exc
    /\ UNCHANGED <<appVars, chunk_ranges, sink, image_walk, ocr_conf_seen>>
    /\ UNCHANGED <<doc, text_by, full_text, pages_with_text, total_text_length,
                   chunk_start, page_idx, progress, text_extraction_failed,
                   temp_files>>
    /\ UNCHANGED <<sampleVars, chunkVars>>

----------------------------------------------------------------------------
(* The standard pipeline *)

\* the entries of full_text: a page's text under its "--- Page n ---" header,
\* a table's markdown under its "--- Table i (Page n) ---" header
PageEntry(p) == [kind |-> "page", page |-> p, index |-> 0]
TableEntry(p, idx) == [kind |-> "table", page |-> p, index |-> idx]

\* the table_data records of one page: the truthy tables of
\* page.extract_tables(), each with its index in that list
RECURSIVE TableDataFrom(_, _, _)
TableDataFrom(tables, p, i) ==
    IF i > Len(tables) THEN <<>>
    ELSE (IF tables[i] # "empty"
          THEN <<[page |-> p, table_index |-> i - 1, data |-> tables[i]]>>
          ELSE <<>>) \o TableDataFrom(tables, p, i + 1)

PageTableData(tables, p) == TableDataFrom(tables, p, 1)

\* one iteration of the page loop of _process_standard_pdf; extract_text is
\* not guarded, so a page that raises leaves the loop and the pipeline
StdPage ==
    /\ pc = "std_page"
    /\ page_num <= doc.total_pages
    /\ emitted' = Append(emitted, StdProgress(page_num, doc.total_pages))
    /\ IF page_num = doc.bad_page
       THEN /\ exc' = "page"
            /\ pc' = "except"
            /\ UNCHANGED <<result, full_text, pages_with_text,
                           total_text_length, page_num>>
       ELSE LET raw == PageText(doc.profile, page_num)
                page_text == Strip(raw)
                kept == NonEmpty(raw) /\ NonEmpty(page_text)
                tables == IF doc.total_pages < 100
                          THEN PageTableData(doc.tables, page_num) ELSE <<>>
                page_data == [page_number |-> page_num,
                              text |-> IF kept
                                       THEN [kind |-> "text", chars |-> page_text.chars]
                                       ELSE [kind |-> "empty", chars |-> 0],
                              tables |-> tables]
            IN /\ result' = [result EXCEPT !.pages = Append(@, page_data),
                                           !.tables = @ \o tables]
               /\ full_text' = (IF kept THEN Append(full_text, PageEntry(page_num))
                                        ELSE full_text)
                                \o [i \in 1..Len(tables) |->
                                       TableEntry(page_num, tables[i].table_index)]
               /\ pages_with_text' = IF kept THEN pages_with_text + 1 ELSE pages_with_text
               /\ total_text_length' = IF kept THEN total_text_length + page_text.chars
                                               ELSE total_text_length
               /\ page_num' = page_num + 1
               /\ UNCHANGED <<exc, pc>>
    /\ UNCHANGED <<appVars, chunk_ranges, sink, image_walk, ocr_conf_seen>>
    /\ UNCHANGED <<doc, text_by, stages, chunk_start, page_idx, progress,
                   text_extraction_failed, temp_files>>
    /\ UNCHANGED <<sampleVars, chunkVars>>

\* the part of a pipeline after its page loop that both pipelines share in
\* shape: the size branches taken when the heuristic failed.  streaming says
\* which pipeline runs it (the streaming one also reports 88 and sets
\* processing_method in the > 200 branch).
AnalyzeFailed(streaming, imp, o) ==
    LET file_size_mb == FileSizeMb(result)
        md1 == MetaSet(MetaSet(result.metadata,
                   "pages_with_text", pages_with_text),
                   "avg_text_per_page", AvgText(total_text_length, doc.total_pages))
        md2 == IF streaming
               THEN MetaSet(md1, "processing_method", "text_extraction_only")
               ELSE md1
        md3 == MetaSet(MetaSet(md2,
                   "note", "OCR skipped for extremely large file"),
                   "recommendation", "Split this PDF into smaller chunks")
        fb == FallbackToOcr(result, imp, o)
    IN IF file_size_mb > 20000
       THEN /\ emitted' = emitted \o (IF streaming THEN <<85, 88>> ELSE <<85>>)
            /\ result' = [result EXCEPT
                   !.text = IF full_text # <<>> THEN JoinText(full_text) ELSE SkipNote,
                   !.metadata = md3]
            /\ text_by' = "size_skip"
            /\ pc' = "images"
            /\ UNCHANGED <<stages, exc, ocr_conf_seen>>
       ELSE IF file_size_mb > 10000
       THEN /\ emitted' = emitted \o <<85, 90>>
            /\ pc' = "smart"
            /\ UNCHANGED <<result, text_by, stages, exc, ocr_conf_seen>>
       ELSE /\ emitted' = emitted \o <<85, 90>>
            /\ stages' = Append(stages, "ocr_fallback")
            /\ result' = fb.res
            /\ text_by' = IF fb.wrote THEN "direct_ocr" ELSE text_by
            /\ ocr_conf_seen' = OcrConfSeen(imp, o)
            /\ IF fb.raised
               THEN exc' = "fallback" /\ pc' = "except"
               ELSE exc' = exc /\ pc' = "images"

\* the branch taken when the heuristic passed
AnalyzePassed(streaming) ==
    LET md1 == MetaSet(MetaSet(result.metadata,
                   "pages_with_text", pages_with_text),
                   "avg_text_per_page", AvgText(total_text_length, doc.total_pages))
    IN /\ emitted' = Append(emitted, 85)
       /\ result' = [result EXCEPT
              !.text = JoinText(full_text),
              !.metadata = IF streaming
                           THEN MetaSet(md1, "processing_method", "streaming")
                           ELSE md1]
       /\ text_by' = "parsed"
       /\ pc' = "images"
       /\ UNCHANGED <<stages, exc, ocr_conf_seen>>

\* _process_standard_pdf after the page loop
StdAnalyze ==
    /\ pc = "std_page"
    /\ page_num > doc.total_pages
    /\ LET failed == StdFailed(pages_with_text, total_text_length, doc.total_pages)
       IN /\ text_extraction_failed' = IF failed THEN "yes" ELSE "no"
          /\ IF failed
             THEN \E imp \in BOOLEAN, o \in OcrOutcomes : AnalyzeFailed(FALSE, imp, o)
             ELSE AnalyzePassed(FALSE)
    /\ UNCHANGED <<appVars, chunk_ranges, sink, image_walk>>
    /\ UNCHANGED <<doc, full_text, pages_with_text, total_text_length, page_num,
                   chunk_start, page_idx, progress, temp_files>>
    /\ UNCHANGED <<sampleVars, chunkVars>>

----------------------------------------------------------------------------
(* The streaming pipeline *)

\* _process_large_pdf_streaming up to its chunk loop
StreamingStart ==
    /\ pc = "streaming"
    /\ emitted' = Append(emitted, 15)
    /\ stages' = Append(stages, "streaming")
    /\ chunk_start' = 0
    /\ pc' = "stream_chunk"
    /\ UNCHANGED <<appVars, chunk_ranges, sink, image_walk, ocr_conf_seen>>
    /\ UNCHANGED <<doc, result, text_by, exc, full_text, pages_with_text,
                   total_text_length, page_num, page_idx, progress,
                   text_extraction_failed, temp_files>>
    /\ UNCHANGED <<sampleVars, chunkVars>>

\* head of one iteration of the chunk loop: the chunk's progress update
StreamChunk ==
    /\ pc = "stream_chunk"
    /\ chunk_start < doc.total_pages
    /\ progress' = StreamProgress(chunk_start, doc.total_pages)
    /\ emitted' = Append(emitted, progress')
    /\ page_idx' = chunk_start
    /\ pc' = "stream_page"
    /\ UNCHANGED <<appVars, chunk_ranges, sink, image_walk, ocr_conf_seen>>
    /\ UNCHANGED <<doc, result, text_by, stages, exc, full_text, pages_with_text,
                   total_text_length, page_num, chunk_start,
                   text_extraction_failed, temp_files>>
    /\ UNCHANGED <<sampleVars, chunkVars>>

\* one page of the current chunk.  chunk_text is folded into full_text: it
\* is appended to full_text at the end of the chunk and nothing reads either
\* in between.
StreamPage ==
    /\ pc = "stream_page"
    /\ LET total == doc.total_pages
           chunk_size == StreamChunkSize(total)
           chunk_end == StreamChunkEnd(chunk_start, chunk_size, total)
           pnum == page_idx + 1
           raw == PageText(doc.profile, pnum)
           page_text == Strip(raw)
           failed == pnum = doc.bad_page
           kept == ~failed /\ NonEmpty(raw) /\ NonEmpty(page_text)
           page_data == [page_number |-> pnum,
                         text |-> IF failed THEN [kind |-> "error", chars |-> 0]
                                  ELSE IF kept
                                  THEN [kind |-> "text", chars |-> page_text.chars]
                                  ELSE [kind |-> "empty", chars |-> 0],
                         tables |-> <<>>]
       IN /\ page_idx < chunk_end
          /\ emitted' = IF total > 500 /\ pnum % 10 = 0
                        THEN Append(emitted,
                                 SubProgress(progress, page_idx, chunk_start, chunk_size))
                        ELSE emitted
          /\ result' = [result EXCEPT !.pages = Append(@, page_data)]
          /\ full_text' = IF kept THEN Append(full_text, PageEntry(pnum)) ELSE full_text
          /\ pages_with_text' = IF kept THEN pages_with_text + 1 ELSE pages_with_text
          /\ total_text_length' = IF kept THEN total_text_length + page_text.chars
                                          ELSE total_text_length
          /\ page_idx' = page_idx + 1
          /\ IF page_idx + 1 < chunk_end
             THEN UNCHANGED <<pc, chunk_start>>
             ELSE pc' = "stream_chunk" /\ chunk_start' = chunk_start + chunk_size
    /\ UNCHANGED <<appVars, chunk_ranges, sink, image_walk, ocr_conf_seen>>
    /\ UNCHANGED <<doc, text_by, stages, exc, page_num, progress,
                   text_extraction_failed, temp_files>>
    /\ UNCHANGED <<sampleVars, chunkVars>>

\* _process_large_pdf_streaming after the chunk loop
StreamAnalyze ==
    /\ pc = "stream_chunk"
    /\ chunk_start >= doc.total_pages
    /\ LET failed == StreamFailed(pages_with_text, total_text_length, doc.total_pages)
       IN /\ text_extraction_failed' = IF failed THEN "yes" ELSE "no"
          /\ IF failed
             THEN \E imp \in BOOLEAN, o \in OcrOutcomes : AnalyzeFailed(TRUE, imp, o)
             ELSE AnalyzePassed(TRUE)
    /\ UNCHANGED <<appVars, chunk_ranges, sink, image_walk>>
    /\ UNCHANGED <<doc, full_text, pages_with_text, total_text_length, page_num,
                   chunk_start, page_idx, progress, temp_files>>
    /\ UNCHANGED <<sampleVars, chunkVars>>

----------------------------------------------------------------------------
(* The sample-based feasibility test *)

\* sample_pages
SamplePages(total) ==
    IF total <= 10
    THEN 1..total
    ELSE LET middle == total \div 2
         IN {p \in {1, 2, 3, middle - 1, middle, middle + 1,
                    total - 2, total - 1, total} : 1 <= p /\ p <= total}

\* the pages of sample_pages[:5]
NumTested(n) == Min(5, n)

\* success_rate > 0.5, with success_rate = sample_success / max(sample_total, 1)
SampleRatePasses(success, total) == 2 * success > Max(total, 1)

\* a sample counts when OCR returned text longer than 50 characters
SampleSucceeds(page_result) ==
    Truthy(page_result.text) /\ TextLen(page_result.text) > 50

\* _smart_ocr_for_large_files up to its sample loop
SmartStart ==
    /\ pc = "smart"
    /\ stages' = Append(stages, "feasibility")
    /\ \E imp \in BOOLEAN :
          IF imp
          THEN /\ emitted' = Append(emitted, 92)
               /\ sample_total' = Cardinality(SamplePages(doc.total_pages))
               /\ sample_idx' = 0
               /\ sample_success' = 0
               /\ pc' = "sample"
               /\ UNCHANGED result
          ELSE /\ result' = [result EXCEPT !.error = "Smart OCR failed"]
               /\ pc' = "images"
               /\ UNCHANGED <<emitted, sample_total, sample_idx, sample_success>>
    /\ UNCHANGED <<appVars, chunk_ranges, sink, image_walk, ocr_conf_seen>>
    /\ UNCHANGED <<doc, text_by, exc, sample_tested, feasibility, temp_files>>
    /\ UNCHANGED <<pipelineVars, chunkVars>>

\* one iteration of the sample loop.  Which page a sample is does not enter
\* the model: what the page-range tool and the OCR adapter do with it is an
\* input of every iteration.
Sample ==
    /\ pc = "sample"
    /\ sample_idx < NumTested(sample_total)
    /\ sample_idx' = sample_idx + 1
    /\ \/ \* NamedTemporaryFile raised: except Exception: continue
          UNCHANGED <<sample_success, sample_tested, temp_files>>
       \/ \* pdftk: CalledProcessError or FileNotFoundError: continue, the
          \* temporary file stays
          /\ temp_files' = temp_files + 1
          /\ UNCHANGED <<sample_success, sample_tested>>
       \/ \* the page was extracted: OCR it, delete the temporary file
          \E o \in OcrOutcomes :
             /\ sample_tested' = sample_tested + 1
             /\ sample_success' = IF SampleSucceeds(OCRProcess(o))
                                  THEN sample_success + 1 ELSE sample_success
             /\ UNCHANGED temp_files
    /\ UNCHANGED <<appVars, chunk_ranges, sink, image_walk, ocr_conf_seen>>
    /\ UNCHANGED <<pc, doc, emitted, result, text_by, stages, exc, sample_total,
                   feasibility>>
    /\ UNCHANGED <<pipelineVars, chunkVars>>

\* the decision after the sample loop
SmartDecide ==
    /\ pc = "sample"
    /\ sample_idx >= NumTested(sample_total)
    /\ emitted' = Append(emitted, 95)
    /\ IF SampleRatePasses(sample_success, sample_total)
       THEN /\ feasibility' = "pass"
            /\ stages' = Append(stages, "chunked_ocr")
            /\ ocr_chunk_start' = 1
            /\ all_text' = <<>>
            /\ processed_pages' = 0
            /\ pc' = "ocr_chunk"
            /\ UNCHANGED result
       ELSE /\ feasibility' = "fail"
            \* existing_result.get('text', ...) finds the key: text stays
            /\ result' = [result EXCEPT !.metadata =
                   MetaSet(MetaSet(@, "ocr_test_result", "Failed"),
                           "recommendation", "This PDF may not be scannable")]
            /\ pc' = "images"
            /\ UNCHANGED <<stages, ocr_chunk_start, all_text, processed_pages>>
    /\ UNCHANGED <<appVars, chunk_ranges, sink, image_walk, ocr_conf_seen>>
    /\ UNCHANGED <<doc, text_by, exc, sample_total, sample_idx, sample_success,
                   sample_tested, chunk_faults, temp_files>>
    /\ UNCHANGED pipelineVars

----------------------------------------------------------------------------
(* The chunked OCR processor *)

ChunkSize == 20

\* a chunk end that is not clamped to the document
ChunkEndUnclamped(start, total) == start + ChunkSize - 1

\* chunk_end = min(chunk_start + chunk_size - 1, total_pages)
ChunkEnd(start, total) == Min(start + ChunkSize - 1, total)

\* progress = 95 + int((processed_pages / total_pages) * 5)
ChunkOcrProgress(processed, total) == 95 + (processed * 5) \div total

ChunkedFailedNote == [kind |-> "chunked_ocr_failed_note", body |-> <<>>]

\* the locals of _chunked_ocr_processing end with the call
ChunkedReturns ==
    /\ ocr_chunk_start' = 0
    /\ all_text' = <<>>
    /\ processed_pages' = 0
    /\ chunk_faults' = 0

\* one iteration of the chunk loop of _chunked_ocr_processing
OcrChunk ==
    /\ pc = "ocr_chunk"
    /\ ocr_chunk_start <= doc.total_pages
    /\ emitted' = Append(emitted, ChunkOcrProgress(processed_pages, doc.total_pages))
    /\ LET chunk_end == ChunkEnd(ocr_chunk_start, doc.total_pages)
           n == chunk_end - ocr_chunk_start + 1
           section(kind) == [from |-> ocr_chunk_start, to |-> chunk_end, kind |-> kind]
       IN \/ \* NamedTemporaryFile raised OSError, or pdftk is missing
             \* (FileNotFoundError): not a CalledProcessError, so the
             \* function's outer except Exception takes it
             \E tool \in {"tempfile_error", "pdftk_missing"} :
                /\ result' = [result EXCEPT
                       !.text = ChunkedFailedNote,
                       !.error = "Chunked OCR failed",
                       !.metadata = MetaSet(@, "fallback_reason", tool)]
                /\ text_by' = "chunked_ocr_failed"
                /\ temp_files' = IF tool = "pdftk_missing"
                                 THEN temp_files + 1 ELSE temp_files
                /\ pc' = "images"
                /\ ChunkedReturns
                /\ UNCHANGED chunk_ranges
          \/ \* pdftk: CalledProcessError: an error block, next chunk
             /\ chunk_faults < MaxChunkFaults
             /\ chunk_faults' = chunk_faults + 1
             /\ all_text' = Append(all_text, section("error_block"))
             /\ processed_pages' = processed_pages + n
             /\ temp_files' = temp_files + 1
             /\ ocr_chunk_start' = ocr_chunk_start + ChunkSize
             /\ chunk_ranges' = Append(chunk_ranges, <<ocr_chunk_start, chunk_end>>)
             /\ UNCHANGED <<result, text_by, pc>>
          \/ \* the chunk was extracted: OCR it, delete the temporary file
             \E o \in OcrOutcomes :
                LET chunk_result == OCRProcess(o)
                    fault == chunk_result.text.kind # "ocr_text"
                IN /\ fault => chunk_faults < MaxChunkFaults
                   /\ chunk_faults' = IF fault THEN chunk_faults + 1 ELSE chunk_faults
                   /\ all_text' = IF Truthy(chunk_result.text)
                                  THEN Append(all_text, section(chunk_result.text.kind))
                                  ELSE all_text
                   /\ processed_pages' = processed_pages + n
                   /\ ocr_chunk_start' = ocr_chunk_start + ChunkSize
                   /\ chunk_ranges' = Append(chunk_ranges,
                                             <<ocr_chunk_start, chunk_end>>)
                   /\ UNCHANGED <<result, text_by, pc, temp_files>>
    /\ UNCHANGED <<appVars, sink, image_walk, ocr_conf_seen>>
    /\ UNCHANGED <<doc, stages, exc>>
    /\ UNCHANGED <<pipelineVars, sampleVars>>

\* _chunked_ocr_processing after the chunk loop
ChunkedFinish ==
    /\ pc = "ocr_chunk"
    /\ ocr_chunk_start > doc.total_pages
    /\ result' = [result EXCEPT
           !.text = IF all_text = <<>> THEN EmptyText
                    ELSE [kind |-> "chunked_ocr", body |-> all_text],
           !.extraction_method = "chunked_ocr",
           !.metadata = MetaSet(MetaSet(MetaSet(@,
               "extraction_method", "Chunked OCR (Large Scanned PDF)"),
               "pages_processed", processed_pages),
               "processing_method", "chunked_ocr_large_file")]
    /\ text_by' = "chunked_ocr"
    /\ pc' = "images"
    /\ ChunkedReturns
    /\ UNCHANGED <<appVars, chunk_ranges, sink, image_walk, ocr_conf_seen>>
    /\ UNCHANGED <<doc, emitted, stages, exc, temp_files>>
    /\ UNCHANGED <<pipelineVars, sampleVars>>

----------------------------------------------------------------------------
(* process: the exception handler, the image extractor, the last update *)

ProcessErrorNote == [kind |-> "pdf_error_note", body |-> <<>>]

\* the except clause of process: report 95, try the OCR fallback on the
\* original file, record the reason; control then goes to `after`.  The
\* report of 95 is a statement of the except clause itself: when the sink
\* raises there, the exception leaves process.
ExceptHandler(after) ==
    /\ pc = "except"
    /\ emitted' = Append(emitted, 95)
    /\ IF sink = "raises"
       THEN /\ pc' = "raised"
            /\ UNCHANGED <<stages, result, text_by, ocr_conf_seen>>
       ELSE /\ stages' = Append(stages, "ocr_fallback")
            /\ \E imp \in BOOLEAN, o \in OcrOutcomes :
                  LET fb == FallbackToOcr(result, imp, o)
                  IN /\ IF fb.raised
                        THEN /\ result' = [fb.res EXCEPT
                                              !.error = "PDF processing failed",
                                              !.text = ProcessErrorNote]
                             /\ text_by' = "process_error"
                        ELSE /\ result' = [fb.res EXCEPT !.metadata =
                                               MetaSet(@, "fallback_reason", exc)]
                             /\ text_by' = IF fb.wrote THEN "direct_ocr"
                                                       ELSE text_by
                     /\ ocr_conf_seen' = OcrConfSeen(imp, o)
            /\ pc' = after
    /\ UNCHANGED <<appVars, chunk_ranges, sink, image_walk>>
    /\ UNCHANGED <<doc, exc, temp_files>>
    /\ UNCHANGED <<pipelineVars, sampleVars, chunkVars>>

\* a handler that returns result from inside the except clause
ExceptReturnsEarly == ExceptHandler("done")

\* a handler that lets the exception go on to the caller
ExceptReraises == ExceptHandler("raised")

\* the handler falls through to the last statement of process
Except == ExceptHandler("final")

\* _extract_images: process reports 87 and calls it; the walk over the
\* document's images is ImageWalks.  result['images'] is appended to in
\* place, so what the walk recorded before a failure stays in the result.
ExtractImages ==
    /\ pc = "images"
    /\ stages' = Append(stages, "images")
    /\ \E env \in ImageEnvs :
          LET w == ImageWalks[doc.total_pages, env]
          IN /\ result' = [result EXCEPT
                    !.images = @ \o w.images,
                    !.metadata =
                        IF w.raised
                        THEN MetaSet(MetaSet(@, "image_extraction_error", "e"),
                                     "images_extracted", 0)
                        ELSE MetaSet(@, "images_extracted", w.images_extracted)]
             /\ emitted' = IF ~w.raised /\ w.images_extracted > 0
                           THEN emitted \o <<87, 89>>
                           ELSE Append(emitted, 87)
             /\ image_walk' = [env |-> env, raised |-> w.raised,
                               loaded |-> w.loaded, attempts |-> w.attempts,
                               last |-> w.last]
    /\ pc' = "final"
    /\ UNCHANGED <<appVars, chunk_ranges, sink, ocr_conf_seen>>
    /\ UNCHANGED <<doc, text_by, exc, temp_files>>
    /\ UNCHANGED <<pipelineVars, sampleVars, chunkVars>>

\* the last statement of process: report 100 and return result
Finish ==
    /\ pc = "final"
    /\ emitted' = Append(emitted, 100)
    /\ pc' = "done"
    /\ UNCHANGED <<appVars, chunk_ranges, sink, image_walk, ocr_conf_seen>>
    /\ UNCHANGED <<doc, result, text_by, stages, exc, temp_files>>
    /\ UNCHANGED <<pipelineVars, sampleVars, chunkVars>>

----------------------------------------------------------------------------

Next ==
    \/ Open
    \/ StdPage
    \/ StdAnalyze
    \/ StreamingStart
    \/ StreamChunk
    \/ StreamPage
    \/ StreamAnalyze
    \/ SmartStart
    \/ Sample
    \/ SmartDecide
    \/ OcrChunk
    \/ ChunkedFinish
    \/ Except
    \/ ExtractImages
    \/ Finish

Spec == Init /\ [][Next]_vars

----------------------------------------------------------------------------
(* The web application: concurrent /api/convert requests for PDF files.    *)
(* processors is a module-level dict built once, so every request gets the *)
(* same PDFProcessor object; Flask serves each request on its own thread.  *)
(* Here a run of process appears as the sequence of the reports process    *)
(* itself issues; its own state is not followed.                           *)

\* the reports process issues on a run without exception (lines 40, 50, 71
\* and 84; the pipelines add theirs in between)
ProcessUpdates == <<5, 10, 87, 100>>

\* update_progress(session_id, file_id, percentage, message), under
\* progress_lock
UpdateProgress(key, percentage) ==
    progress_store' = [progress_store EXCEPT ![key] = percentage]

\* convert_file up to the lookup of the processor: the request's first
\* update, processors.get('pdf')
ConvertStart(r) ==
    /\ request[r].pc = "start"
    /\ UpdateProgress(r, 0)
    /\ request' = [request EXCEPT ![r].pc = "set_callback"]
    /\ UNCHANGED <<progress_callback, deliveries>>
    /\ UNCHANGED processVars

\* processor.set_progress_callback(progress_callback): the closure over this
\* request's session_id and file_id is stored on the shared processor
SetCallback(r) ==
    /\ request[r].pc = "set_callback"
    /\ progress_callback' = r
    /\ request' = [request EXCEPT ![r].pc = "process"]
    /\ UNCHANGED <<progress_store, deliveries>>
    /\ UNCHANGED processVars

\* one _report_progress of this request's processor.process(temp_filepath):
\* it calls whatever self.progress_callback holds now
ProcessReport(r) ==
    /\ request[r].pc = "process"
    /\ LET i == request[r].next
           percentage == ProcessUpdates[i]
       IN /\ IF progress_callback # "none"
             THEN /\ UpdateProgress(progress_callback, percentage)
                  /\ deliveries' = deliveries \cup
                         {[from |-> r, to |-> progress_callback]}
             ELSE UNCHANGED <<progress_store, deliveries>>
          /\ request' = [request EXCEPT
                 ![r] = IF i < Len(ProcessUpdates)
                        THEN [pc |-> "process", next |-> i + 1]
                        ELSE [pc |-> "format", next |-> 1]]
    /\ UNCHANGED progress_callback
    /\ UNCHANGED processVars

\* process has returned: update 90, format the output
FormatOutput(r) ==
    /\ request[r].pc = "format"
    /\ UpdateProgress(r, 90)
    /\ request' = [request EXCEPT ![r].pc = "save"]
    /\ UNCHANGED <<progress_callback, deliveries>>
    /\ UNCHANGED processVars

\* the output is formatted: update 95
SaveStart(r) ==
    /\ request[r].pc = "save"
    /\ UpdateProgress(r, 95)
    /\ request' = [request EXCEPT ![r].pc = "saving"]
    /\ UNCHANGED <<progress_callback, deliveries>>
    /\ UNCHANGED processVars

\* save the converted file (local mode): on success update 100 and answer,
\* on failure answer 500
SaveOutput(r) ==
    /\ request[r].pc = "saving"
    /\ \E saved \in BOOLEAN :
          IF saved
          THEN /\ UpdateProgress(r, 100)
               /\ request' = [request EXCEPT ![r].pc = "answered"]
          ELSE /\ request' = [request EXCEPT ![r].pc = "failed"]
               /\ UNCHANGED progress_store
    /\ UNCHANGED <<progress_callback, deliveries>>
    /\ UNCHANGED processVars

\* the application before any request has done anything; the processor's
\* own state stays as it is before a run
ConvertInit ==
    /\ Init
    /\ sink = "ok"
    /\ doc = [total_pages |-> 0, size |-> 30000, has_metadata |-> FALSE,
              profile |-> "empty", tables |-> <<>>, bad_page |-> 0,
              open_fails |-> FALSE]

ConvertNext ==
    \E r \in Requests :
        \/ ConvertStart(r)
        \/ SetCallback(r)
        \/ ProcessReport(r)
        \/ FormatOutput(r)
        \/ SaveStart(r)
        \/ SaveOutput(r)

ConvertSpec == ConvertInit /\ [][ConvertNext]_vars

----------------------------------------------------------------------------
(* Properties *)

Last(s) == s[Len(s)]
Range(s) == {s[i] : i \in 1..Len(s)}
MetaHas(m, k) == k \in DOMAIN m

OcrStages == {"ocr_fallback", "feasibility", "chunked_ocr"}

Returned == pc = "done"

\* the heuristic failed on a document of more than 200 MB
SparseAbove200 == text_extraction_failed = "yes" /\ doc.size > 200000

\* the heuristic failed on a document of more than 100 and at most 200 MB
SparseBetween100And200 ==
    text_extraction_failed = "yes" /\ doc.size > 100000 /\ doc.size <= 200000

\* position of the first entry of stage st in stages (0: never entered)
FirstEntry(st) ==
    IF st \in Range(stages)
    THEN CHOOSE i \in 1..Len(stages) :
            stages[i] = st /\ \A j \in 1..(i - 1) : stages[j] # st
    ELSE 0

\* C1: within one invocation of process no progress update carries a
\* percentage lower than an earlier update of the same run.
C1_ProgressNonDecreasing ==
    \A i \in 1..(Len(emitted) - 1) : emitted[i] <= emitted[i + 1]

\* C2: when process has returned, the last update handed to the (non-raising)
\* sink carries exactly 100, on success and on every failure path.
C2_LastUpdateIs100 ==
    Returned => Len(emitted) > 0 /\ Last(emitted) = 100

C2_Witness ==
    /\ Returned
    /\ exc = "page"
    /\ result.error = "OCR fallback failed"
    /\ Last(emitted) = 100

\* C3: whatever stage fails (open, a page, the feasibility test, a chunk,
\* direct OCR, image extraction), no exception leaves process: with a sink
\* that returns, the run never ends raised, it can always go on until it has
\* returned, and what it returns is a complete result record.
C3_AlwaysReturnsResult ==
    /\ sink = "ok" => pc # "raised"
    /\ (sink = "ok" /\ ~Returned) => ENABLED Next
    /\ Returned =>
          {"text", "tables", "pages", "images", "metadata", "extraction_method"}
              \subseteq DOMAIN result

C3_Witness ==
    /\ Returned
    /\ exc = "open"
    /\ result.error = "OCR fallback failed"
    /\ MetaHas(result.metadata, "image_extraction_error") = FALSE
    /\ MetaHas(result.metadata, "fallback_reason")

\* C4: for a document of more than 200 MB whose quality heuristic fails, no
\* OCR stage (direct fallback, feasibility test, chunked OCR) is ever entered,
\* with or without document metadata.
C4_NoOcrAbove200 ==
    SparseAbove200 => Range(stages) \cap OcrStages = {}

\* C5: for a document of more than 200 MB whose quality heuristic fails, the
\* returned result has extraction_method text_extraction_only and carries both
\* metadata.note and metadata.recommendation.
C5_SkipResultAbove200 ==
    (Returned /\ SparseAbove200) =>
        /\ result.extraction_method = "text_extraction_only"
        /\ MetaHas(result.metadata, "note")
        /\ MetaHas(result.metadata, "recommendation")

\* C6: at return extraction_method names the pipeline that last wrote the
\* returned text: ocr_fallback exactly for direct OCR, chunked_ocr exactly
\* for the chunked OCR processor, text_extraction_only when OCR was skipped
\* for size, text_extraction only for directly parsed page text (or for a
\* text no stage wrote).
C6_MethodNamesTextSource ==
    Returned =>
        /\ result.extraction_method = "ocr_fallback" <=> text_by = "direct_ocr"
        /\ result.extraction_method = "chunked_ocr" <=> text_by = "chunked_ocr"
        /\ text_by = "size_skip" => result.extraction_method = "text_extraction_only"
        /\ result.extraction_method = "text_extraction" =>
              text_by \in {"parsed", "init"}

\* C7: the feasibility test passes exactly when more than half of the sample
\* pages that were actually OCR-tested succeeded; skipped samples count
\* neither way.
C7_RateOverTestedPages ==
    feasibility # "none" =>
        (feasibility = "pass" <=> 2 * sample_success > sample_tested)

\* C8: for a failed heuristic on a 100-200 MB document the feasibility test
\* runs, chunked OCR runs only after the test passed, and when the test did
\* not pass the result carries ocr_test_result and recommendation and chunked
\* OCR never runs.
C8_FeasibilityGatesChunkedOcr ==
    (Returned /\ SparseBetween100And200) =>
        /\ "feasibility" \in Range(stages)
        /\ "chunked_ocr" \in Range(stages) =>
              /\ feasibility = "pass"
              /\ FirstEntry("feasibility") < FirstEntry("chunked_ocr")
        /\ feasibility # "pass" =>
              /\ MetaHas(result.metadata, "ocr_test_result")
              /\ MetaHas(result.metadata, "recommendation")
              /\ "chunked_ocr" \notin Range(stages)

\* C9: when the feasibility test does not pass, the returned text contains
\* the text of every page that yielded non-empty text in the page loop.
C9_FailedTestKeepsParsedText ==
    (Returned /\ feasibility = "fail") =>
        \A i \in 1..Len(result.pages) :
            result.pages[i].text.kind = "text" =>
                /\ result.text.kind = "parsed"
                /\ \E k \in 1..Len(result.text.body) :
                      /\ result.text.body[k].kind = "page"
                      /\ result.text.body[k].page = result.pages[i].page_number

\* C10: in both pipelines a page whose extraction fails does not stop the
\* run: the failure is on that page's PageResult, every page is visited, and
\* the run does not go to whole-document OCR through the exception handler.
C10_BadPageIsLocal ==
    (Returned /\ ~doc.open_fails /\ doc.bad_page \in 1..doc.total_pages) =>
        /\ Len(result.pages) = doc.total_pages
        /\ result.pages[doc.bad_page].text.kind = "error"
        /\ exc = "none"

\* C11: the image extractor runs exactly once in every invocation of process
\* that returns, whichever text path was taken, the exception handler's OCR
\* fallback included.
C11_ImagesExactlyOnce ==
    Returned => Cardinality({i \in 1..Len(stages) : stages[i] = "images"}) = 1

\* the page-range tool failed on the chunk of this step (it returned an error
\* or is missing): only then the chunk's temporary file outlives the step
ChunkToolFails == pc = "ocr_chunk" /\ temp_files' > temp_files

\* C12: in the chunked OCR processor a chunk whose page-range extraction
\* fails adds an error block tagged with its page range to the text gathered
\* so far, and the chunk loop goes on.
C12_ChunkToolFailureIsLocal ==
    [][ChunkToolFails =>
          /\ pc' = "ocr_chunk"
          /\ all_text' = Append(all_text,
                 [from |-> ocr_chunk_start,
                  to |-> Min(ocr_chunk_start + ChunkSize - 1, doc.total_pages),
                  kind |-> "error_block"])]_vars

\* C13: when chunked OCR ran over a document of N pages, the returned text
\* has exactly ceil(N / 20) page-range-tagged sections, one per 20-page
\* chunk in ascending page order, and extraction_method is chunked_ocr.
C13_OneSectionPerChunk ==
    (Returned /\ "chunked_ocr" \in Range(stages)) =>
        /\ result.extraction_method = "chunked_ocr"
        /\ result.text.kind = "chunked_ocr"
        /\ Len(result.text.body) = (doc.total_pages + ChunkSize - 1) \div ChunkSize
        /\ \A k \in 1..Len(result.text.body) :
              /\ result.text.body[k].from = ChunkSize * (k - 1) + 1
              /\ result.text.body[k].to = Min(ChunkSize * k, doc.total_pages)

\* C14: at return no temporary sub-document created by the feasibility test
\* or by the chunked OCR processor still exists.
C14_TempFilesDeleted ==
    Returned => temp_files = 0

\* C15: a failed OCR call is never taken for OCR output: its failure message
\* is not the returned text nor a section of it, and it never counts as a
\* successful feasibility sample.
C15_OcrFailureIsNotText ==
    /\ Returned =>
          /\ result.text.kind # "ocr_error_message"
          /\ result.text.kind = "chunked_ocr" =>
                \A k \in 1..Len(result.text.body) :
                    result.text.body[k].kind # "ocr_error_message"
    /\ pc = "sample" =>
          \A o \in OcrOutcomes : o.raises => ~SampleSucceeds(OCRProcess(o))

\* the direct OCR fallback failed: the OCR module could not be imported, or
\* the OCR call met an exception
FallbackOcrFailed ==
    \/ result.error = "OCR fallback failed"
    \/ result.text.kind = "ocr_error_message"

\* C16: when the document cannot be opened or parsed, process runs the
\* direct OCR fallback; if that fails too the result has an error field and
\* a non-empty text; a result with empty text and no error is never returned.
C16_ParseFailureIsExplained ==
    (Returned /\ exc \in {"open", "page"}) =>
        /\ "ocr_fallback" \in Range(stages)
        /\ FallbackOcrFailed =>
              (result.error # "absent" /\ Truthy(result.text))
        /\ ~(result.text = EmptyText /\ result.error = "absent")

\* C17: a progress sink that raises does not abort extraction: process does
\* not end raised, and the sink's exception neither reaches the exception
\* handler of process nor starts the OCR fallback.
C17_RaisingSinkDoesNotAbort ==
    sink = "raises" =>
        /\ pc # "raised"
        /\ exc = "none"
        /\ "ocr_fallback" \notin Range(stages)

\* C19: when the image extractor's walk ends with an exception (open or
\* load_page raised), the returned result has no image and its metadata has
\* the exception text.
C19_FailedImagePhaseLeavesNoImages ==
    (Returned /\ image_walk.raised) =>
        /\ result.images = <<>>
        /\ MetaHas(result.metadata, "image_extraction_error")

\* C20: the result never holds more than 50 image records, and when it
\* holds 50 the 50th is the last image the walk touched and its page the
\* last page the walk loaded.
C20_ImageCapHolds ==
    /\ Len(result.images) <= ImageCap
    /\ Len(result.images) = ImageCap =>
          /\ image_walk.last = result.images[ImageCap]
          /\ image_walk.loaded = result.images[ImageCap].page_number

C20_Witness ==
    /\ Returned
    /\ Len(result.images) = ImageCap
    /\ result.images[ImageCap].image_index < image_walk.env.per_page - 1
    /\ result.images[ImageCap].page_number < doc.total_pages

\* C18: when PDF conversions run concurrently, every report issued while
\* extracting a request's document is recorded under that request's own
\* (session, file) key, never under another request's.
C18_ReportsReachOwnSink ==
    \A d \in deliveries : d.to = d.from

\* the image extractor has run on a document one image of whose every page
\* cannot be decoded, and nothing else failed
OneImagePerPageUndecodable ==
    /\ "images" \in Range(stages)
    /\ image_walk.env.bad_index >= 0
    /\ image_walk.env.load_fails = "never"

\* C21: an image that cannot be decoded or re-encoded is skipped alone: the
\* walk does not end with an exception, no record is made for the skipped
\* image, and every other image of every page is recorded until the cap of
\* 50 records, toward which the skipped images do not count.
C21_BadImageIsSkippedAlone ==
    OneImagePerPageUndecodable =>
        /\ ~image_walk.raised
        /\ \A k \in 1..Len(result.images) :
              result.images[k].image_index # image_walk.env.bad_index
        /\ Len(result.images) =
              Min(ImageCap, doc.total_pages * (image_walk.env.per_page - 1))
        /\ \A p \in 1..doc.total_pages, i \in 0..(image_walk.env.per_page - 1) :
              (i # image_walk.env.bad_index
                  /\ (p - 1) * (image_walk.env.per_page - 1) + i <= ImageCap)
              => \E k \in 1..Len(result.images) :
                    result.images[k] = [page_number |-> p, image_index |-> i]
        /\ result.metadata["images_extracted"] = Len(result.images)

C21_Witness ==
    /\ Returned
    /\ OneImagePerPageUndecodable
    /\ Len(result.images) = ImageCap
    /\ image_walk.attempts > ImageCap
    /\ result.images[ImageCap].page_number > 1

\* the record the standard pipeline makes of the i-th table of page p
TableRecord(p, i) == [page |-> p, table_index |-> i - 1, data |-> doc.tables[i]]

\* C22: for a document the standard pipeline processed, when total_pages <
\* 100 every non-empty table of every page is in that page's tables and in
\* the result's tables, and when total_pages >= 100 the result's tables is
\* empty; for a document the streaming pipeline processed no table is added.
C22_TablesByPageCount ==
    (Returned /\ ~doc.open_fails) =>
        IF UseStreaming(doc.size)
        THEN /\ result.tables = <<>>
             /\ \A k \in 1..Len(result.pages) : result.pages[k].tables = <<>>
        ELSE IF doc.total_pages >= 100
        THEN result.tables = <<>>
        ELSE \A p \in 1..doc.total_pages, i \in 1..Len(doc.tables) :
                doc.tables[i] # "empty" =>
                    /\ TableRecord(p, i) \in Range(result.tables)
                    /\ Len(result.pages) >= p
                    /\ TableRecord(p, i) \in Range(result.pages[p].tables)

\* avg_text_per_page < limit, for the counts of the finished page loop
AvgTextBelow(limit) ==
    IF doc.total_pages = 0 THEN 0 < limit
    ELSE total_text_length < limit * doc.total_pages

\* C23: the quality heuristic declares extraction failed exactly when
\* pages_with_text < 0.5 * total_pages or avg_text_per_page < 100 in the
\* standard pipeline, and exactly when pages_with_text < 0.3 * total_pages or
\* avg_text_per_page < 50 in the streaming pipeline.
C23_HeuristicThresholds ==
    text_extraction_failed # "unset" =>
        (text_extraction_failed = "yes" <=>
            IF "streaming" \in Range(stages)
            THEN 10 * pages_with_text < 3 * doc.total_pages \/ AvgTextBelow(50)
            ELSE 2 * pages_with_text < doc.total_pages \/ AvgTextBelow(100))

\* the streaming pipeline passes a document the standard thresholds fail
C23_Witness ==
    /\ "streaming" \in Range(stages)
    /\ text_extraction_failed = "no"
    /\ doc.total_pages > 0
    /\ pages_with_text <= doc.total_pages
    /\ AvgTextBelow(100)

\* the steps about to divide by total_pages (lines 100, 180, 356) or by the
\* streaming chunk_size (line 201)
DividesByTotalPages ==
    \/ pc = "std_page" /\ page_num <= doc.total_pages
    \/ pc = "stream_chunk" /\ chunk_start < doc.total_pages
    \/ pc = "ocr_chunk" /\ ocr_chunk_start <= doc.total_pages

\* C24: with total_pages = 0 no step divides by zero (the page and chunk
\* progress, the chunked OCR progress, the average text per page), no
\* exception is raised, and the quality heuristic of either pipeline declares
\* the extraction failed.
C24_EmptyDocumentIsSafe ==
    /\ DividesByTotalPages => doc.total_pages # 0
    /\ pc = "stream_page" => StreamChunkSize(doc.total_pages) # 0
    /\ (pc = "sample" /\ sample_idx >= NumTested(sample_total)) =>
            Max(sample_total, 1) # 0
    /\ (doc.total_pages = 0 /\ ~doc.open_fails /\ sink = "ok") => exc = "none"
    /\ (doc.total_pages = 0 /\ text_extraction_failed # "unset") =>
            /\ text_extraction_failed = "yes"
            /\ AvgText(total_text_length, doc.total_pages) = 0
            /\ pages_with_text = 0
            /\ MetaGet(result.metadata, "avg_text_per_page", 0) = 0

\* an empty document went through the standard pipeline and came back
C24_Witness ==
    /\ Returned
    /\ doc.total_pages = 0
    /\ "standard" \in Range(stages)
    /\ text_extraction_failed = "yes"
    /\ exc = "none"

\* how many times a pipeline was entered
Entered(stage) == Cardinality({i \in DOMAIN stages : stages[i] = stage})

\* C25: for a document that opens, the streaming pipeline runs exactly when
\* file_size_mb > 50 and the standard pipeline otherwise; one of the two runs
\* per invocation, once.
C25_OnePipelineBySize ==
    /\ Entered("standard") + Entered("streaming") <= 1
    /\ "streaming" \in Range(stages) => doc.size > 50000
    /\ "standard" \in Range(stages) => doc.size <= 50000
    /\ (Returned /\ exc \notin {"open", "sink"}) =>
            Entered("standard") + Entered("streaming") = 1

\* a file just above 50 MB went through the streaming pipeline
C25_Witness ==
    /\ Returned
    /\ doc.size = 50004
    /\ Entered("streaming") = 1
    /\ Entered("standard") = 0
    /\ Len(result.pages) = doc.total_pages
    /\ doc.total_pages > 0

\* a document under 100 MB that opens and whose every page gives no text
ScannedUnder100 ==
    /\ doc.size < 100000
    /\ doc.total_pages > 0
    /\ doc.profile \in {"blank", "empty"}
    /\ ~doc.open_fails
    /\ (doc.bad_page = 0 \/ doc.bad_page > doc.total_pages)
    /\ sink = "ok"

\* the heuristic failed and the direct fallback was called, once, with no
\* feasibility test and no chunking
DirectFallbackRan ==
    /\ text_extraction_failed = "yes"
    /\ Entered("ocr_fallback") = 1
    /\ "feasibility" \notin Range(stages)
    /\ "chunked_ocr" \notin Range(stages)
    /\ exc = "none"

\* C26 as stated: for a document under 100 MB whose pages all yield no text,
\* the heuristic fails, the direct whole-document OCR fallback runs with no
\* feasibility test and no chunking, and extraction_method is ocr_fallback.
C26_ScannedGetsOcrFallback ==
    (Returned /\ ScannedUnder100) =>
        /\ DirectFallbackRan
        /\ result.extraction_method = "ocr_fallback"

\* C26, amended: the same, except that when the OCR module cannot be loaded
\* the fallback leaves extraction_method at text_extraction and sets the
\* error field to "OCR fallback failed".
C26_ScannedGetsOcrFallbackOrError ==
    (Returned /\ ScannedUnder100) =>
        /\ DirectFallbackRan
        /\ \/ /\ result.extraction_method = "ocr_fallback"
              /\ result.error # "OCR fallback failed"
           \/ /\ result.extraction_method = "text_extraction"
              /\ result.error = "OCR fallback failed"
              /\ result.text = EmptyText

\* a ten-page scan of 50.004 MB came back through the streaming pipeline with
\* OCR text
C26_Witness ==
    /\ Returned
    /\ ScannedUnder100
    /\ doc.total_pages = 10
    /\ "streaming" \in Range(stages)
    /\ result.extraction_method = "ocr_fallback"
    /\ result.text.kind = "ocr_text"

\* the direct OCR fallback ran and the engine gave a positive token
\* confidence for some page
OcrSawConfidence ==
    /\ "ocr_fallback" \in Range(stages)
    /\ ocr_conf_seen > 0

\* C27: when the OCR fallback ran and some OCR-processed page yielded a token
\* confidence greater than 0, the returned result carries an ocr_confidence,
\* also when the pages with positive confidences produced no cleaned text.
C27_ConfidenceIsReported ==
    (Returned /\ OcrSawConfidence) =>
        result.ocr_confidence > 0

\* C28: when a pipeline's page loop has completed, result.pages holds
\* total_pages entries with page_number 1, 2, ..., total_pages in this order
\* (every page once), in the standard pipeline and in the streaming pipeline
\* for every chunk size, a last partial chunk included.
C28_PagesInOrderOnce ==
    text_extraction_failed # "unset" =>
        /\ Len(result.pages) = doc.total_pages
        /\ \A i \in DOMAIN result.pages : result.pages[i].page_number = i

\* a 61-page document went through the streaming pipeline in chunks of 6,
\* the last chunk holding one page
C28_Witness ==
    /\ text_extraction_failed # "unset"
    /\ "streaming" \in Range(stages)
    /\ doc.total_pages = 61
    /\ StreamChunkSize(doc.total_pages) = 6
    /\ chunk_start = 66
    /\ Len(result.pages) = 61
    /\ result.pages[61].page_number = 61

\* the last page of the chunk ranges handled so far
PagesCovered == IF chunk_ranges = <<>> THEN 0 ELSE Last(chunk_ranges)[2]

\* the ranges start at page 1, each starts where the one before ended, has
\* between 1 and 20 pages and stays inside the document
RangesConsecutive ==
    \A i \in DOMAIN chunk_ranges :
        /\ chunk_ranges[i][1] = IF i = 1 THEN 1 ELSE chunk_ranges[i - 1][2] + 1
        /\ chunk_ranges[i][1] <= chunk_ranges[i][2]
        /\ chunk_ranges[i][2] - chunk_ranges[i][1] + 1 <= 20
        /\ chunk_ranges[i][2] <= doc.total_pages

\* C29: the page ranges of the chunked OCR processor are consecutive and
\* disjoint, each of at most 20 pages, and cover 1..total_pages; when the
\* chunk loop completes, metadata.pages_processed is total_pages, whichever
\* chunks failed with a page-range extraction error.
C29_ChunkRangesPartitionPages ==
    /\ RangesConsecutive
    /\ pc = "ocr_chunk" => processed_pages = PagesCovered
    /\ text_by = "chunked_ocr" =>
            /\ PagesCovered = doc.total_pages
            /\ MetaGet(result.metadata, "pages_processed", -1) = doc.total_pages

\* a 61-page scan was processed in the ranges 1-20, 21-40, 41-60 and 61-61,
\* one of them an error block
C29_Witness ==
    /\ Returned
    /\ text_by = "chunked_ocr"
    /\ doc.total_pages = 61
    /\ chunk_ranges = <<(<<1, 20>>), (<<21, 40>>), (<<41, 60>>), (<<61, 61>>)>>
    /\ \E i \in DOMAIN result.text.body : result.text.body[i].kind = "error_block"
    /\ result.metadata["pages_processed"] = 61

\* a step taken while request B has not started: request A is alone
OnlyRequestA == request["B"].pc = "start" /\ request'["B"].pc = "start"

\* C30: during one /api/convert request the percentage stored under its key
\* never decreases from one update to the next, and 100 is stored only by
\* the request's last update, after the converted output has been saved.
C30_StoredProgressIsMonotonic ==
    [][OnlyRequestA =>
          /\ progress_store'["A"] >= progress_store["A"]
          /\ (progress_store'["A"] = 100 /\ request["A"].pc # "answered") =>
                 /\ request["A"].pc = "saving"
                 /\ request'["A"].pc = "answered"]_vars

====
